---- MODULE Spec2Model ----
(***************************************************************************)
(* TrafficLens (src/unnamed/part_001): a timer-driven monitor that samples *)
(* interface counters and the connection table, splits the traffic into    *)
(* proxied and direct, and publishes the live TrafficStats to subscribers. *)
(*                                                                         *)
(* The JavaScript event loop is modelled at its suspension points: every   *)
(* action is one run-to-completion job (a public call, a timer firing up   *)
(* to its first await, the continuation after an await).                   *)
(***************************************************************************)
EXTENDS Integers, Sequences, FiniteSets, TLC

(* ------------------------------------------------------------------ *)
(* Bounds of the model                                                 *)
(* ------------------------------------------------------------------ *)
\* timer firings over the whole run
MaxTicks == 3
\* calls of start() that arm a timer
MaxStarts == 2
\* calls of subscribe()
MaxSubs == 2

(* ------------------------------------------------------------------ *)
(* JavaScript values                                                   *)
(* ------------------------------------------------------------------ *)
\* null (lastStats, intervalId's empty value is 0, proxyResults.stats)
Null == [null |-> TRUE]

\* A numeric field the provider left null: counters and rates are >= 0,
\* so -1 is free to stand for it.
Missing == -1

\* x || 0 on a number-or-null
OrZero(x) == IF x = Missing THEN 0 ELSE x

\* ToNumber on a number-or-null, as the binary minus applies it
ToNumber(x) == IF x = Missing THEN 0 ELSE x

\* Strings that the code compares or searches are sequences of characters.
DigitChars == <<"0", "1", "2", "3", "4", "5", "6", "7", "8", "9">>

RECURSIVE NumberToString(_)
\* Number.prototype.toString() of a non-negative integer
NumberToString(n) ==
  IF n < 10 THEN <<DigitChars[n + 1]>>
  ELSE NumberToString(n \div 10) \o <<DigitChars[(n % 10) + 1]>>

\* String.prototype.includes
Includes(s, sub) ==
  \E i \in 1..(Len(s) + 1) :
     /\ i + Len(sub) - 1 <= Len(s)
     /\ SubSeq(s, i, i + Len(sub) - 1) = sub

\* Array.prototype.find: hit[i] tells whether the callback accepts the i-th
\* element; the index of the first accepted one, 0 (undefined) when none is
FindIndex(hit) ==
  IF \E i \in DOMAIN hit : hit[i]
  THEN CHOOSE i \in DOMAIN hit : hit[i] /\ \A j \in 1..(i - 1) : ~hit[j]
  ELSE 0

RECURSIVE FilterFrom(_, _, _)
\* the elements of seq from index i on that the callback keeps, in order
FilterFrom(seq, keep, i) ==
  IF i > Len(seq) THEN <<>>
  ELSE (IF keep[i] THEN <<seq[i]>> ELSE <<>>) \o FilterFrom(seq, keep, i + 1)

\* Array.prototype.filter: keep[i] tells whether the callback keeps the i-th
\* element
Filter(seq, keep) == FilterFrom(seq, keep, 1)

(* ------------------------------------------------------------------ *)
(* Construction                                                        *)
(* ------------------------------------------------------------------ *)
MinInterval == 3000
DefaultInterval == 5000
ProxyPort == 1080

\* updateInterval values handed to the constructor
IntervalInputs == {-1, 0, 1, 2999, 3000, 3001, 8000}

\* Config objects: updateInterval is optional
ConfigInputs ==
  {[proxyPort |-> ProxyPort]}
    \cup {[proxyPort |-> ProxyPort, updateInterval |-> v] : v \in IntervalInputs}

DefaultConfig == [proxyPort |-> ProxyPort]

HasInterval(c) == "updateInterval" \in DOMAIN c

\* the condition of the constructor's throw: config.updateInterval && ... < 3000
\* (undefined and 0 are falsy)
IntervalRejected(c) ==
  HasInterval(c) /\ c.updateInterval # 0 /\ c.updateInterval < MinInterval

\* this.config = { updateInterval: config.updateInterval || 5000, ...config }
\* the spread comes last, so an own updateInterval of config wins
MergeConfig(c) ==
  [proxyPort |-> c.proxyPort,
   updateInterval |-> IF HasInterval(c) THEN c.updateInterval ELSE DefaultInterval]

\* the constructor: Null stands for the thrown Error (no instance)
Constructor(c) == IF IntervalRejected(c) THEN Null ELSE MergeConfig(c)

(* ------------------------------------------------------------------ *)
(* Provider outputs (systeminformation)                                *)
(* ------------------------------------------------------------------ *)
Rejected == [ok |-> FALSE]
Resolved(list) == [ok |-> TRUE, list |-> list]

\* The interfaces of the host. Rates are null on the provider's first call.
IfLo == [iface |-> <<"l", "o">>, operstate |-> "up",
         rx_bytes |-> 0, tx_bytes |-> 0, rx_sec |-> 0, tx_sec |-> 0]
IfDown == [iface |-> <<"d", "0">>, operstate |-> "down",
           rx_bytes |-> 7, tx_bytes |-> 7, rx_sec |-> Missing, tx_sec |-> Missing]
IfE == [iface |-> <<"e", "0">>, operstate |-> "up",
        rx_bytes |-> 1000, tx_bytes |-> 2000, rx_sec |-> Missing, tx_sec |-> 200]
IfW == [iface |-> <<"w", "0">>, operstate |-> "up",
        rx_bytes |-> 300, tx_bytes |-> 50, rx_sec |-> 30, tx_sec |-> Missing]

\* what si.networkStats() may settle with
IfaceOutputs ==
  {Rejected,
   Resolved(<<IfLo, IfDown, IfE, IfW>>),
   Resolved(<<IfLo, IfDown>>)}

ConnE1 == [localAddress |-> <<"e", "0">>, localPort |-> <<"1", "0", "8", "0">>]
ConnW == [localAddress |-> <<"%", "w", "0">>, localPort |-> <<"1", "0", "8", "0">>]
ConnOther == [localAddress |-> <<"e", "0">>, localPort |-> <<"4", "4", "3">>]

\* what si.networkConnections() may settle with
ConnOutputs ==
  {Rejected,
   Resolved(<<ConnE1, ConnE1>>),
   Resolved(<<ConnOther, ConnW>>)}

(* ------------------------------------------------------------------ *)
(* The two captures                                                    *)
(* ------------------------------------------------------------------ *)
\* mutant of IsMainInterface: the received-byte counter is not looked at
IsUpInterface(stat) == stat.operstate = "up"

\* (stat) => stat.operstate === "up" && stat.rx_bytes > 0
IsMainInterface(stat) == stat.operstate = "up" /\ stat.rx_bytes > 0

\* getCurrentStats(): out is what si.networkStats() settled with,
\* t is Date.now()
getCurrentStats(out, t) ==
  IF ~out.ok THEN Null
  ELSE LET i == FindIndex([k \in 1..Len(out.list) |-> IsMainInterface(out.list[k])]) IN
       IF i = 0 THEN Null
       ELSE [uploadSpeed |-> OrZero(out.list[i].tx_sec),
             downloadSpeed |-> OrZero(out.list[i].rx_sec),
             upload |-> OrZero(out.list[i].tx_bytes),
             download |-> OrZero(out.list[i].rx_bytes),
             timestamp |-> t]

\* mutant of checkProxyConnections: a failure of si.networkStats() is not
\* caught with the rest, the connections are still counted
checkProxyConnectionsCounting(port, conns, stats) ==
  [activeConnections |-> IF conns.ok THEN Len(conns.list) ELSE 0, stats |-> Null]

\* checkProxyConnections(): conns and stats are what the two provider
\* calls settled with
checkProxyConnections(port, conns, stats) ==
  IF ~conns.ok \/ ~stats.ok
  THEN [activeConnections |-> 0, stats |-> Null]
  ELSE LET OnPort(conn) == conn.localPort = NumberToString(port)
           proxyConnections ==
             Filter(conns.list, [k \in 1..Len(conns.list) |-> OnPort(conns.list[k])])
           Referenced(stat) ==
             \E k \in 1..Len(proxyConnections) :
                Includes(proxyConnections[k].localAddress, stat.iface)
           i == FindIndex([k \in 1..Len(stats.list) |-> Referenced(stats.list[k])])
       IN [activeConnections |-> Len(proxyConnections),
           stats |-> IF i = 0 THEN Null
                     ELSE [upload |-> stats.list[i].tx_bytes,
                           download |-> stats.list[i].rx_bytes,
                           uploadSpeed |-> stats.list[i].tx_sec,
                           downloadSpeed |-> stats.list[i].rx_sec]]

(* ------------------------------------------------------------------ *)
(* State                                                               *)
(* ------------------------------------------------------------------ *)
VARIABLES
  ctorInput,   \* the Config handed to the constructor (Null: none yet)
  config,      \* this.config (Null: no instance)
  lastStats,   \* this.lastStats
  totalStats,  \* this.totalStats, the one live TrafficStats
  intervalId,  \* this.intervalId, 0 for null
  callbacks,   \* this.callbacks
  timers,      \* the runtime's armed interval timers: {[id, interval]}
  nextTimer,   \* the id the next setInterval returns
  clock,       \* Date.now(), in timer periods
  inflight,    \* timer callbacks suspended at an await
  disposers,   \* the closures subscribe() has returned, in order
  totalRef,    \* the object this.totalStats refers to (totalStats is its content)
  returned,    \* what the accessor or formatter called last returned (Null: none)
  lastTick,    \* history: the timer callback that ran to its end last
  seeded,      \* history: timers with a finished callback that had a snapshot
  published,   \* history: the publishes, in the order the subscribers saw them
  starts       \* history: calls of start(), the rejected ones included

vars == <<ctorInput, config, lastStats, totalStats, intervalId, callbacks,
          timers, nextTimer, clock, inflight, disposers, lastTick, seeded,
          published, starts, totalRef, returned>>

\* the callback values a caller may subscribe, in the order of their first use
Callbacks == <<"cb1", "cb2">>

\* the values subscribe() may be handed next: one used before, or the next new one
Known(ds) == {Callbacks[k] : k \in {j \in 1..Len(Callbacks) :
                 j = 1 \/ \E i \in 1..Len(ds) : ds[i].callback = Callbacks[j - 1]}}

ZeroMetrics == [upload |-> 0, download |-> 0, uploadSpeed |-> 0, downloadSpeed |-> 0]

\* field initialisers of the class
InitialStats ==
  [proxied |-> [upload |-> 0, download |-> 0, uploadSpeed |-> 0,
                downloadSpeed |-> 0, activeConnections |-> 0],
   direct |-> ZeroMetrics,
   timestamp |-> 0]

Fields ==
  /\ lastStats = Null
  /\ totalStats = InitialStats
  /\ intervalId = 0
  /\ callbacks = <<>>
  /\ timers = {}
  /\ nextTimer = 1
  /\ clock = 0
  /\ inflight = {}
  /\ disposers = <<>>
  /\ lastTick = Null
  /\ seeded = {}
  /\ published = <<>>
  /\ starts = 0
  /\ totalRef = 1
  /\ returned = Null

\* new TrafficLens({ proxyPort: 1080 }) has run
Init ==
  /\ ctorInput = DefaultConfig
  /\ config = Constructor(DefaultConfig)
  /\ Fields

\* nothing constructed yet
InitCtor ==
  /\ ctorInput = Null
  /\ config = Null
  /\ Fields

(* ------------------------------------------------------------------ *)
(* Public operations                                                   *)
(* ------------------------------------------------------------------ *)
\* new TrafficLens(c)
Construct(c) ==
  /\ ctorInput = Null
  /\ ctorInput' = c
  /\ config' = Constructor(c)
  /\ UNCHANGED <<lastStats, totalStats, intervalId, callbacks, timers,
                 nextTimer, clock, inflight, disposers, lastTick, seeded, published,
                 starts,
                 totalRef, returned>>

\* mutant of StartThrows: the guard of start() is missing
StartNeverThrows(id) == FALSE

\* if (this.intervalId) throw
StartThrows(id) == id # 0

\* mutant of clearInterval: the timer stays armed
clearIntervalKeeps(ts, id) == ts

\* clearInterval(id)
clearInterval(ts, id) == {tm \in ts : tm.id # id}

\* start(): the Error rejects the promise start() returns and nothing is
\* assigned
Start ==
  /\ config # Null
  /\ starts < MaxStarts
  /\ starts' = starts + 1
  /\ IF StartThrows(intervalId)
     THEN UNCHANGED <<intervalId, timers, nextTimer>>
     ELSE /\ intervalId' = nextTimer
          /\ timers' = timers \cup {[id |-> nextTimer, interval |-> config.updateInterval]}
          /\ nextTimer' = nextTimer + 1
  /\ UNCHANGED <<ctorInput, config, lastStats, totalStats, callbacks, clock,
                 inflight, disposers, lastTick, seeded, published,
                 totalRef, returned>>

\* mutant of Stop: stop() also drops the subscribers and the stored snapshot
StopAndForget ==
  /\ config # Null
  /\ IF intervalId # 0
     THEN /\ timers' = clearInterval(timers, intervalId)
          /\ intervalId' = 0
          /\ callbacks' = <<>>
          /\ lastStats' = Null
     ELSE UNCHANGED <<timers, intervalId, callbacks, lastStats>>
  /\ UNCHANGED <<ctorInput, config, totalStats, nextTimer, clock, inflight,
                 disposers, lastTick, seeded, published, starts, totalRef,
                 returned>>

\* stop()
Stop ==
  /\ config # Null
  /\ IF intervalId # 0
     THEN /\ timers' = clearInterval(timers, intervalId)
          /\ intervalId' = 0
     ELSE UNCHANGED <<timers, intervalId>>
  /\ UNCHANGED <<ctorInput, config, lastStats, totalStats, callbacks, nextTimer,
                 clock, inflight, disposers, lastTick, seeded, published, starts,
                 totalRef, returned>>

\* this.callbacks.push(callback)
Push(list, cb) == Append(list, cb)

\* the disposer's body: this.callbacks.filter((cb) => cb !== callback)
Unsubscribe(list, callback) ==
  Filter(list, [k \in 1..Len(list) |-> list[k] # callback])

\* subscribe(cb)
Subscribe(cb) ==
  /\ config # Null
  /\ Len(disposers) < MaxSubs
  /\ cb \in Known(disposers)
  /\ callbacks' = Push(callbacks, cb)
  /\ disposers' = Append(disposers, [callback |-> cb, called |-> FALSE])
  /\ UNCHANGED <<ctorInput, config, lastStats, totalStats, intervalId, timers,
                 nextTimer, clock, inflight, lastTick, seeded, published, starts,
                 totalRef, returned>>

\* a call of the i-th disposer
Dispose(i) ==
  /\ i \in 1..Len(disposers)
  /\ callbacks' = Unsubscribe(callbacks, disposers[i].callback)
  /\ disposers' = [disposers EXCEPT ![i].called = TRUE]
  /\ UNCHANGED <<ctorInput, config, lastStats, totalStats, intervalId, timers,
                 nextTimer, clock, inflight, lastTick, seeded, published, starts,
                 totalRef, returned>>

(* ------------------------------------------------------------------ *)
(* The timer callback                                                  *)
(* ------------------------------------------------------------------ *)
\* An armed timer fires: the callback runs up to `await this.getCurrentStats()`.
\* setInterval does not wait for an earlier callback's promise.
TimerFire(tm) ==
  /\ tm \in timers
  /\ clock < MaxTicks
  /\ clock' = clock + 1
  /\ inflight' = inflight \cup
       {[n |-> clock + 1, timer |-> tm.id, phase |-> "current", cur |-> Null]}
  /\ UNCHANGED <<ctorInput, config, lastStats, totalStats, intervalId, callbacks,
                 timers, nextTimer, disposers, lastTick, seeded, published, starts,
                 totalRef, returned>>

\* si.networkStats() settles: getCurrentStats returns and the callback goes on
\* to `await this.checkProxyConnections()`.
SettleCurrent(t) ==
  /\ t \in inflight
  /\ t.phase = "current"
  /\ \E out \in IfaceOutputs :
       inflight' = (inflight \ {t}) \cup
         {[t EXCEPT !.phase = "proxy", !.cur = getCurrentStats(out, clock)]}
  /\ UNCHANGED <<ctorInput, config, lastStats, totalStats, intervalId, callbacks,
                 timers, nextTimer, clock, disposers, lastTick, seeded, published,
                 starts,
                 totalRef, returned>>

\* if (!currentStats) return
SkipsTick(currentStats) == currentStats = Null

\* mutant of Publishes: the seed check `if (this.lastStats)` is missing
PublishesWithoutLast(currentStats, last) == ~SkipsTick(currentStats)

\* if (this.lastStats) { ... publish ... }
Publishes(currentStats, last) == ~SkipsTick(currentStats) /\ last # Null

\* the assignments to this.totalStats inside `if (this.lastStats)`
UpdatedStats(total, currentStats, proxyResults, now) ==
  LET stats == proxyResults.stats
      Sub(field) == IF stats = Null THEN 0 ELSE OrZero(stats[field])
  IN [timestamp |-> now,
      proxied |->
        IF stats # Null
        THEN [upload |-> stats.upload, download |-> stats.download,
              uploadSpeed |-> stats.uploadSpeed, downloadSpeed |-> stats.downloadSpeed,
              activeConnections |-> proxyResults.activeConnections]
        ELSE [total.proxied EXCEPT !.activeConnections = proxyResults.activeConnections],
      direct |->
        [upload |-> currentStats.upload - Sub("upload"),
         download |-> currentStats.download - Sub("download"),
         uploadSpeed |-> currentStats.uploadSpeed - Sub("uploadSpeed"),
         downloadSpeed |-> currentStats.downloadSpeed - Sub("downloadSpeed")]]

\* mutant of NextLastStats: `this.lastStats = currentStats` sits above the
\* early return
NextLastStatsUnguarded(last, currentStats) == currentStats

\* this.lastStats after the callback: `this.lastStats = currentStats` is reached
\* only past the early return
NextLastStats(last, currentStats) ==
  IF SkipsTick(currentStats) THEN last ELSE currentStats

\* what one of n subscribers can do with the monitor while it is being
\* invoked: nothing, subscribe(cb), or a call of a disposer handed out so far
\* (ds before the fan-out, at most n - 1 more during it)
ReentrantCalls(ds, n) ==
  {[kind |-> "none"]}
    \cup {[kind |-> "subscribe", callback |-> Callbacks[k]] :
            k \in IF Len(ds) < MaxSubs THEN 1..Len(Callbacks) ELSE {}}
    \cup {[kind |-> "dispose", i |-> i] :
            i \in {j \in 1..MaxSubs : j <= Len(ds) + n - 1}}

\* mutant of Walked: forEach reads the array this.callbacks holds now
WalkedLive(arr, live) == live

\* the array forEach reads its elements from: the one this.callbacks held when
\* forEach was called
Walked(arr, live) == arr

\* A call made by the subscriber being invoked. h.arr is the array forEach
\* walks, h.live the array this.callbacks holds, h.same whether they are one
\* object: push() grows the array in place, the disposer assigns a new one.
Reenter(h, call) ==
  CASE call.kind = "none" -> h
    [] call.kind = "subscribe" ->
         [h EXCEPT !.ok = h.ok /\ Len(h.ds) < MaxSubs /\ call.callback \in Known(h.ds),
                   !.live = Push(h.live, call.callback),
                   !.arr = IF h.same THEN Push(h.arr, call.callback) ELSE h.arr,
                   !.ds = Append(h.ds, [callback |-> call.callback, called |-> FALSE])]
    [] call.kind = "dispose" ->
         IF call.i > Len(h.ds)
         THEN [h EXCEPT !.ok = FALSE]
         ELSE [h EXCEPT !.live = Unsubscribe(h.live, h.ds[call.i].callback),
                        !.same = FALSE,
                        !.ds = [h.ds EXCEPT ![call.i].called = TRUE]]

\* Array.prototype.forEach from index k: the length is read once, before the
\* first call, and an index the array no longer has is passed over
RECURSIVE forEach(_, _, _, _)
forEach(h, k, len, calls) ==
  IF k > len
  THEN h
  ELSE LET a == Walked(h.arr, h.live)
       IN IF k > Len(a)
          THEN forEach(h, k + 1, len, calls)
          ELSE forEach(Reenter([h EXCEPT !.to = Append(h.to, a[k])], calls[k]),
                       k + 1, len, calls)

\* this.callbacks.forEach((cb) => cb(this.totalStats)): .to is the callbacks
\* invoked, in order; .live and .ds are the list and the disposers afterwards
FanOut(list, ds, calls) ==
  forEach([arr |-> list, live |-> list, same |-> TRUE, ds |-> ds, to |-> <<>>,
           ok |-> TRUE], 1, Len(list), calls)

\* mutant of AssignFields: the tick builds a new TrafficStats and assigns it
\* to this.totalStats
AssignNewObject(ref) == ref + 1

\* the object this.totalStats refers to after `this.totalStats.timestamp = ...`,
\* `this.totalStats.proxied = ...`, `this.totalStats.direct = ...`: fields of
\* the same object are assigned
AssignFields(ref) == ref

\* mutant of Handed: the subscribers run before the assignments
HandedBeforeUpdate(before, after) == before

\* what a subscriber reads through its argument, this.totalStats: the fan-out
\* is the last statement of the block that assigns timestamp, proxied, direct
Handed(before, after) == after

\* The rest of the callback, from the resumption after
\* `await this.checkProxyConnections()` to its end: no await is left, so it
\* runs as one job.
TickBody(t, proxyResults, calls) ==
  LET currentStats == t.cur
      publishes == Publishes(currentStats, lastStats)
      total == IF publishes
               THEN UpdatedStats(totalStats, currentStats, proxyResults, clock)
               ELSE totalStats
      fan == FanOut(IF publishes THEN callbacks ELSE <<>>, disposers, calls)
  IN /\ fan.ok
     /\ totalStats' = total
     /\ totalRef' = IF publishes THEN AssignFields(totalRef) ELSE totalRef
     /\ lastStats' = NextLastStats(lastStats, currentStats)
     /\ callbacks' = IF publishes THEN fan.live ELSE callbacks
     /\ disposers' = fan.ds
     /\ inflight' = inflight \ {t}
     /\ lastTick' = [n |-> t.n, timer |-> t.timer, cur |-> currentStats,
                  proxy |-> IF publishes THEN proxyResults ELSE Null,
                  published |-> publishes,
                  registered |-> IF publishes THEN callbacks ELSE <<>>,
                  to |-> fan.to,
                  handed |-> IF publishes THEN Handed(totalStats, total) ELSE Null,
                  ref |-> IF publishes THEN AssignFields(totalRef) ELSE 0,
                  reentered |-> \E k \in 1..Len(calls) : calls[k].kind # "none",
                  armed |-> intervalId = t.timer,
                  first |-> t.timer \notin seeded]
     /\ seeded' = IF currentStats = Null THEN seeded ELSE seeded \cup {t.timer}
     /\ published' = IF publishes
                     THEN Append(published, [n |-> t.n, timestamp |-> total.timestamp])
                     ELSE published

\* what `await this.checkProxyConnections()` can resolve to, over every answer
\* of si.networkConnections() and si.networkStats()
ProxyResults(port) ==
  {checkProxyConnections(port, conns, stats) :
     conns \in ConnOutputs, stats \in IfaceOutputs}

\* one re-entrant call per subscriber invoked
Invocations(n) == [1..n -> ReentrantCalls(disposers, n)]

\* Both provider calls of checkProxyConnections settle and the callback runs
\* to its end; each subscriber invoked may call back into the monitor.
SettleProxy(t) ==
  /\ t \in inflight
  /\ t.phase = "proxy"
  /\ \E proxyResults \in ProxyResults(config.proxyPort) :
       \E calls \in Invocations(IF Publishes(t.cur, lastStats)
                                 THEN Len(callbacks) ELSE 0) :
         TickBody(t, proxyResults, calls)
  /\ UNCHANGED <<ctorInput, config, intervalId, timers, nextTimer, clock, starts, returned>>

(* ------------------------------------------------------------------ *)
(* Accessors                                                           *)
(* ------------------------------------------------------------------ *)
\* getTrafficStats(): return this.totalStats
getTrafficStats(ref) == [ref |-> ref]

\* getProxySpeed(): a new object with the two speeds of proxied
getProxySpeed(total) ==
  [uploadSpeed |-> total.proxied.uploadSpeed,
   downloadSpeed |-> total.proxied.downloadSpeed]

\* getDirectSpeed(): a new object with the two speeds of direct
getDirectSpeed(total) ==
  [uploadSpeed |-> total.direct.uploadSpeed,
   downloadSpeed |-> total.direct.downloadSpeed]

\* a call of an accessor that returns value
Access(value) ==
  /\ config # Null
  /\ returned' = value
  /\ UNCHANGED <<ctorInput, config, lastStats, totalStats, intervalId, callbacks,
                 timers, nextTimer, clock, inflight, disposers, lastTick, seeded,
                 published, starts, totalRef>>

GetTrafficStats == Access(getTrafficStats(totalRef))

GetProxySpeed == Access(getProxySpeed(totalStats))

GetDirectSpeed == Access(getDirectSpeed(totalStats))

(* ------------------------------------------------------------------ *)
(* Formatting                                                          *)
(* ------------------------------------------------------------------ *)
\* A byte count is written in base 1024, least significant digit first
\* (1024 is <<0, 1>>), so that counts beyond 1024^3 stay within reach;
\* dividing by 1024 moves one digit behind the point, exactly as the division
\* of a double by a power of two does.
Kilo == 1024

\* digits per byte count
MaxLimbs == 5

\* the digits tried: 128/1024 is a tie of toFixed(2), 1023 carries
Limbs == {0, 1, 128, 1023}

\* the byte counts handed to the formatters, without leading zero digits
ByteInputs ==
  {b \in UNION {[1..n -> Limbs] : n \in 1..MaxLimbs} :
     Len(b) = 1 \/ b[Len(b)] # 0}

\* const units = ["B", "KB", "MB", "GB"]
Units == <<<<"B">>, <<"K", "B">>, <<"M", "B">>, <<"G", "B">>>>

RECURSIVE LimbsValue(_)
\* the integer a digit sequence stands for
LimbsValue(whole) ==
  IF whole = <<>> THEN 0 ELSE Head(whole) + Kilo * LimbsValue(Tail(whole))

\* mutant of AtLeastKilo: the loop compares with 1024 * 1024
AtLeastMega(whole) == \E i \in 3..Len(whole) : whole[i] # 0

\* size >= 1024, size being whole plus a fraction below 1
AtLeastKilo(whole) == \E i \in 2..Len(whole) : whole[i] # 0

RECURSIVE Scale(_, _, _)
\* while (size >= 1024 && unitIndex < units.length - 1) { size /= 1024;
\* unitIndex++ }: frac holds the digits behind the point, the first one first
Scale(whole, frac, unitIndex) ==
  IF AtLeastKilo(whole) /\ unitIndex < Len(Units) - 1
  THEN Scale(Tail(whole), <<Head(whole)>> \o frac, unitIndex + 1)
  ELSE [whole |-> whole, frac |-> frac, unitIndex |-> unitIndex]

RECURSIVE Times100(_)
\* frac * 100: .carry is its integer part, .limbs the digits of the rest
Times100(frac) ==
  IF frac = <<>>
  THEN [carry |-> 0, limbs |-> <<>>]
  ELSE LET rest == Times100(Tail(frac))
           t == 100 * Head(frac) + rest.carry
       IN [carry |-> t \div Kilo, limbs |-> <<t % Kilo>> \o rest.limbs]

\* Number.prototype.toFixed(2) of whole + frac: the nearest number of
\* hundredths, the larger one on a tie
toFixed2(whole, frac) ==
  LET scaled == Times100(frac)
      up == scaled.limbs # <<>> /\ 2 * Head(scaled.limbs) >= Kilo
      hundredths == scaled.carry + (IF up THEN 1 ELSE 0)
      cents == hundredths % 100
  IN NumberToString(LimbsValue(whole) + (hundredths \div 100))
       \o <<".", DigitChars[(cents \div 10) + 1], DigitChars[(cents % 10) + 1]>>

\* TrafficLens.formatBytes(bytes)
formatBytes(bytes) ==
  LET size == Scale(bytes, <<>>, 0)
  IN toFixed2(size.whole, size.frac) \o <<" ">> \o Units[size.unitIndex + 1]

\* TrafficLens.formatSpeed(bytesPerSec)
formatSpeed(bytesPerSec) == formatBytes(bytesPerSec) \o <<"/", "s">>

\* a call of a static formatter: it needs no instance and touches none
Format(fn, bytes, text) ==
  /\ returned' = [fn |-> fn, bytes |-> bytes, text |-> text]
  /\ UNCHANGED <<ctorInput, config, lastStats, totalStats, intervalId, callbacks,
                 timers, nextTimer, clock, inflight, disposers, lastTick, seeded,
                 published, starts, totalRef>>

FormatBytes(bytes) == Format("formatBytes", bytes, formatBytes(bytes))

FormatSpeed(bytes) == Format("formatSpeed", bytes, formatSpeed(bytes))

(* ------------------------------------------------------------------ *)
(* The interface-snapshot capture on its own                           *)
(* ------------------------------------------------------------------ *)
\* interfaces per list
MaxIfaces == 3

\* an interface that is up and whose byte counter the provider left null
IfNull == [iface |-> <<"n", "0">>, operstate |-> "up",
           rx_bytes |-> Missing, tx_bytes |-> 9, rx_sec |-> 0, tx_sec |-> 0]

\* every list of up to MaxIfaces interfaces, in every order, and a rejection
CaptureInputs ==
  {Rejected} \cup
  {Resolved(list) :
     list \in UNION {[1..n -> {IfLo, IfDown, IfE, IfW, IfNull}] : n \in 0..MaxIfaces}}

\* a call of getCurrentStats() for which si.networkStats() settles with out
GetCurrentStats(out) ==
  /\ returned' = [out |-> out, snapshot |-> getCurrentStats(out, clock)]
  /\ UNCHANGED <<ctorInput, config, lastStats, totalStats, intervalId, callbacks,
                 timers, nextTimer, clock, inflight, disposers, lastTick, seeded,
                 published, starts, totalRef>>

(* ------------------------------------------------------------------ *)
(* Specifications                                                      *)
(* ------------------------------------------------------------------ *)
Next ==
  \/ Start
  \/ Stop
  \/ \E k \in 1..Len(Callbacks) : Subscribe(Callbacks[k])
  \/ \E i \in 1..MaxSubs : Dispose(i)
  \/ \E tm \in timers : TimerFire(tm)
  \/ \E t \in inflight : SettleCurrent(t)
  \/ \E t \in inflight : SettleProxy(t)

\* an instance built with the default interval, then any calls and ticks
Spec == Init /\ [][Next]_vars

NextCtor ==
  \/ \E c \in ConfigInputs : Construct(c)
  \/ Start
  \/ Stop
  \/ \E k \in 1..Len(Callbacks) : Subscribe(Callbacks[k])
  \/ \E i \in 1..MaxSubs : Dispose(i)

NextAccess ==
  \/ Start
  \/ \E k \in 1..Len(Callbacks) : Subscribe(Callbacks[k])
  \/ \E tm \in timers : TimerFire(tm)
  \/ \E t \in inflight : SettleCurrent(t)
  \/ \E t \in inflight : SettleProxy(t)
  \/ GetTrafficStats
  \/ GetProxySpeed
  \/ GetDirectSpeed

\* a monitor that is started and subscribed to, its ticks, and accessor calls
\* at any moment in between
SpecAccess == Init /\ [][NextAccess]_vars

NextFormat ==
  \/ \E bytes \in ByteInputs : FormatBytes(bytes)
  \/ \E bytes \in ByteInputs : FormatSpeed(bytes)

\* calls of the two static formatters with every byte count of ByteInputs
SpecFormat == Init /\ [][NextFormat]_vars

NextCapture == \E out \in CaptureInputs : GetCurrentStats(out)

\* the interface-snapshot capture applied to every answer of CaptureInputs
SpecCapture == Init /\ [][NextCapture]_vars

\* construction with any Config, then the calls that need no tick
SpecCtor == InitCtor /\ [][NextCtor]_vars

(* ------------------------------------------------------------------ *)
(* Properties                                                          *)
(* ------------------------------------------------------------------ *)
MetricFields == {"upload", "download", "uploadSpeed", "downloadSpeed"}

\* a timer callback has run to its end and invoked at least one subscriber
Delivered == lastTick # Null /\ lastTick.published /\ lastTick.to # <<>>

\* C1: once stop() has disarmed a timer, no callback of that timer invokes a
\* subscriber any more: a callback that publishes finds its own timer armed.
C1_NoPublishAfterStop == Delivered => lastTick.armed

\* C2: the first callback of a timer to finish with an interface snapshot
\* stores it as lastStats and invokes no subscriber, for the first start()
\* and for every later one.
C2_SeedTickSilent ==
  (lastTick # Null /\ lastTick.cur # Null /\ lastTick.first)
    => (lastTick.to = <<>> /\ lastStats = lastTick.cur)

\* C3: in the TrafficStats handed to the subscribers, direct is the tick's
\* interface snapshot minus proxied, field by field.
C3_DirectIsSnapshotMinusProxied ==
  Delivered =>
    \A f \in MetricFields :
       totalStats.direct[f] = lastTick.cur[f] - ToNumber(totalStats.proxied[f])

\* C4: start() on a running monitor throws and changes nothing: the timer of
\* the first start() stays the only armed one, lastStats, totalStats and the
\* callbacks are untouched, and there is never more than one armed timer.
C4_StartWhileRunningRejected ==
  /\ [](/\ Cardinality(timers) <= 1
        /\ \A tm \in timers : tm.id = intervalId
        /\ (intervalId # 0 => StartThrows(intervalId) /\ timers # {}))
  /\ [][(starts' = starts + 1 /\ intervalId # 0)
          => UNCHANGED <<intervalId, timers, nextTimer, lastStats, totalStats,
                         callbacks>>]_vars

\* C4 witness: a start() was rejected and the first timer is still the armed one
C4_Witness == starts = 2 /\ nextTimer = 2 /\ intervalId = 1 /\ Cardinality(timers) = 1

\* C5: construction throws exactly for updateInterval < 3000.
C5_IntervalBelowMinimumRejected ==
  (ctorInput # Null /\ HasInterval(ctorInput))
    => (config = Null <=> ctorInput.updateInterval < MinInterval)

\* C6: subscribe(cb) followed by the disposer it returned leaves the list of
\* callbacks exactly as it was before, whatever the list held.
C6_SubscribeThenDisposeRestores ==
  \A k \in 1..Len(Callbacks) :
     Unsubscribe(Push(callbacks, Callbacks[k]), Callbacks[k]) = callbacks

\* C7: the subscribers see the publishes in the order the timer fired, with
\* timestamps that never decrease.
C7_PublishesInTickOrder ==
  \A i, j \in 1..Len(published) :
     i < j => /\ published[i].n < published[j].n
              /\ published[i].timestamp <= published[j].timestamp

\* C8: at most one timer callback is in progress at any time.
C8_TicksNeverOverlap == Cardinality(inflight) <= 1

\* C9: a callback whose interface snapshot is absent invokes no subscriber
\* and leaves lastStats and every field of totalStats as they were.
C9_AbsentSnapshotTickChangesNothing ==
  [][\A t \in inflight :
       (t.phase = "proxy" /\ t.cur = Null /\ t \notin inflight')
         => /\ lastStats' = lastStats
            /\ totalStats' = totalStats
            /\ published' = published
            /\ ~lastTick'.published
            /\ lastTick'.to = <<>>]_vars

\* C9 witness: such a callback has finished while a snapshot was stored and a
\* subscriber was registered
C9_Witness ==
  /\ lastTick # Null
  /\ lastTick.cur = Null
  /\ lastStats # Null
  /\ Len(published) > 0
  /\ callbacks # <<>>

\* the instance was started once and exactly two callbacks have fired and
\* finished, each with an interface snapshot
TwoTicksOfAFreshStart ==
  /\ nextTimer = 2
  /\ clock = 2
  /\ inflight = {}
  /\ lastTick # Null
  /\ lastTick.cur # Null
  /\ ~lastTick.first

\* C10: over the first two ticks of a freshly started instance that both have
\* an interface snapshot, exactly one publish occurs; its proxied carries the
\* tick's connection count and the matched interface's volume and speed, and
\* its direct is the snapshot minus those, field by field.
C10_TwoTicksOnePublish ==
  TwoTicksOfAFreshStart =>
    /\ Len(published) = 1
    /\ lastTick.published
    /\ totalStats.proxied.activeConnections = lastTick.proxy.activeConnections
    /\ lastTick.proxy.stats # Null =>
         \A f \in MetricFields :
            /\ totalStats.proxied[f] = lastTick.proxy.stats[f]
            /\ totalStats.direct[f]
                 = lastTick.cur[f] - ToNumber(lastTick.proxy.stats[f])

\* C10 witness: the two ticks of the unit test: two subscribers, two
\* connections on the port, the proxy interface is the aggregate one
C10_Witness ==
  /\ TwoTicksOfAFreshStart
  /\ Len(lastTick.to) = 2
  /\ lastTick.proxy.activeConnections = 2
  /\ lastTick.proxy.stats # Null
  /\ totalStats.direct = ZeroMetrics

\* C11: no step of a timer callback, whatever the provider answered, disarms
\* the timer or clears intervalId, and a callback that has a snapshot after
\* an earlier callback of its timer had one publishes, whatever failed in
\* between.
C11_ProviderFailureKeepsRunning ==
  /\ [][(inflight' # inflight \/ clock' # clock)
          => (intervalId' = intervalId /\ timers' = timers)]_vars
  /\ []((lastTick # Null /\ lastTick.cur # Null /\ ~lastTick.first)
          => lastTick.published)

\* C11 witness: three callbacks of the running timer have finished in firing
\* order, one of them without a snapshot, and the third published
C11_Witness ==
  /\ nextTimer = 2
  /\ intervalId = 1
  /\ inflight = {}
  /\ lastTick # Null
  /\ lastTick.n = 3
  /\ Len(published) = 1
  /\ published[1].n = 3

C13_StopIdempotent ==
  /\ []((config # Null /\ intervalId = 0)
          => (ENABLED Stop /\ ~ENABLED (Stop /\ vars' # vars)))
  /\ [][(Stop /\ intervalId # 0)
          => (intervalId' = 0 /\ timers' = {})]_vars

\* C13 witness: the monitor was started once and stop() has disarmed its timer
C13_Witness == starts = 1 /\ nextTimer = 2 /\ intervalId = 0 /\ timers = {}

\* C14: the timer start() arms has the interval 5000 when the constructor was
\* given no updateInterval and the given value otherwise, and that interval
\* is never below 3000.
C14_ArmedIntervalAtLeastMinimum ==
  \A tm \in timers :
     /\ tm.interval = IF HasInterval(ctorInput) THEN ctorInput.updateInterval
                                                ELSE DefaultInterval
     /\ tm.interval >= MinInterval

\* C15: every reference getTrafficStats() has returned, and the one every
\* fan-out has passed, is the one object this.totalStats refers to, whose
\* content after a publishing callback is what that callback assigned; and a
\* call of an accessor changes nothing of the instance and starts no sample.
C15_OneLiveStatsObject ==
  /\ []("ref" \in DOMAIN returned => returned.ref = totalRef)
  /\ []((lastTick # Null /\ lastTick.published)
          => (lastTick.ref = totalRef /\ totalStats = lastTick.handed))
  /\ [][returned' # returned
          => UNCHANGED <<ctorInput, config, lastStats, totalStats, intervalId,
                         callbacks, timers, nextTimer, clock, inflight,
                         disposers, lastTick, seeded, published, starts,
                         totalRef>>]_vars

\* C15 witness: a reference from getTrafficStats() is held while the second
\* publish since the start has reached a subscriber
C15_Witness ==
  /\ "ref" \in DOMAIN returned
  /\ Len(published) = 2
  /\ lastTick # Null
  /\ lastTick.published
  /\ lastTick.to # <<>>
  /\ totalStats.timestamp = published[2].timestamp

\* the digit sequences of 1024, 1024^2 and 1024^3
OneKilo == <<0, 1>>
OneMega == <<0, 0, 1>>
OneGiga == <<0, 0, 0, 1>>

\* how often b can be divided by 1024 before it drops below 1024
Divisions(b) ==
  IF \A i \in DOMAIN b : b[i] = 0 THEN 0
  ELSE (CHOOSE i \in DOMAIN b : b[i] # 0 /\ \A j \in (i + 1)..Len(b) : b[j] = 0) - 1

\* s ends with suffix
EndsWith(s, suffix) ==
  Len(s) >= Len(suffix) /\ SubSeq(s, Len(s) - Len(suffix) + 1, Len(s)) = suffix

\* C16: formatBytes(b) ends with the unit of index min(3, divisions of b by
\* 1024) among B, KB, MB, GB, a digit and a space before it; 1024, 1048576
\* and 1073741824 give "1.00 KB", "1.00 MB" and "1.00 GB"; and formatSpeed(b)
\* is formatBytes(b) followed by "/s".
C16_FormatUnits ==
  "text" \in DOMAIN returned =>
    LET b == returned.bytes
        k == IF Divisions(b) < 3 THEN Divisions(b) ELSE 3
        unit == <<<<"B">>, <<"K", "B">>, <<"M", "B">>, <<"G", "B">>>>[k + 1]
        bytesText == IF returned.fn = "formatSpeed"
                     THEN SubSeq(returned.text, 1, Len(returned.text) - 2)
                     ELSE returned.text
    IN /\ returned.fn = "formatSpeed" => EndsWith(returned.text, <<"/", "s">>)
       /\ EndsWith(bytesText, <<" ">> \o unit)
       /\ bytesText[Len(bytesText) - Len(unit) - 1] \in
            {DigitChars[d] : d \in DOMAIN DigitChars}
       /\ b = OneKilo => bytesText = <<"1", ".", "0", "0", " ", "K", "B">>
       /\ b = OneMega => bytesText = <<"1", ".", "0", "0", " ", "M", "B">>
       /\ b = OneGiga => bytesText = <<"1", ".", "0", "0", " ", "G", "B">>

\* C16 witness: formatSpeed was called with 1024^4, a count beyond the last
\* unit, and returned "1024.00 GB/s"
C16_Witness ==
  /\ "text" \in DOMAIN returned
  /\ returned.fn = "formatSpeed"
  /\ returned.bytes = <<0, 0, 0, 0, 1>>
  /\ returned.text = <<"1", "0", "2", "4", ".", "0", "0", " ", "G", "B", "/", "s">>

\* C17: after a publishing callback whose proxy view has no stats, proxied
\* holds 0 in upload, download, uploadSpeed and downloadSpeed, and the view's
\* connection count in activeConnections.
C17_ProxiedZeroWithoutStats ==
  (lastTick # Null /\ lastTick.published /\ lastTick.proxy.stats = Null) =>
    /\ \A f \in MetricFields : totalStats.proxied[f] = 0
    /\ totalStats.proxied.activeConnections = lastTick.proxy.activeConnections

RECURSIVE InSequence(_, _, _)
\* the list and the disposers after the calls are made one after the other
\* outside any fan-out
InSequence(list, ds, calls) ==
  IF calls = <<>> THEN [list |-> list, ds |-> ds]
  ELSE LET call == Head(calls)
       IN CASE call.kind = "none" -> InSequence(list, ds, Tail(calls))
            [] call.kind = "subscribe" ->
                 InSequence(Push(list, call.callback),
                            Append(ds, [callback |-> call.callback, called |-> FALSE]),
                            Tail(calls))
            [] call.kind = "dispose" ->
                 IF call.i > Len(ds) THEN [list |-> Null, ds |-> Null]
                 ELSE InSequence(Unsubscribe(list, ds[call.i].callback),
                                 [ds EXCEPT ![call.i].called = TRUE], Tail(calls))

\* a timer callback runs to its end in this step and publishes
PublishStep == lastTick' # lastTick /\ lastTick'.published

\* C18: a fan-out whose subscribers call subscribe() or a disposer still
\* invokes every callback registered when it began exactly once, in order;
\* afterwards the list is what the same calls leave when made one after the
\* other, and every fan-out walks the list as it is when it begins.
C18_ReentrantFanOutIntact ==
  /\ []((lastTick # Null /\ lastTick.published /\ lastTick.reentered)
          => lastTick.to = lastTick.registered)
  /\ [][PublishStep => lastTick'.registered = callbacks]_vars
  /\ [][(PublishStep /\ lastTick'.reentered)
          => \E calls \in Invocations(Len(callbacks)) :
               /\ callbacks' = InSequence(callbacks, disposers, calls).list
               /\ disposers' = InSequence(callbacks, disposers, calls).ds]_vars

\* C18 witness: cb1 and cb2 were registered, a subscriber disposed of one of
\* them during the fan-out, and both were still invoked, in order
C18_Witness ==
  /\ lastTick # Null
  /\ lastTick.published
  /\ lastTick.reentered
  /\ lastTick.registered = <<"cb1", "cb2">>
  /\ lastTick.to = <<"cb1", "cb2">>
  /\ callbacks = <<"cb1">>
  /\ disposers[2].called
  /\ ~disposers[1].called

\* C19: a call of a disposer that has been called before leaves the list of
\* callbacks as it is.
C19_DisposerSafeToRepeat ==
  [][\A i \in 1..Len(disposers) :
       (disposers[i].called /\ Dispose(i)) => callbacks' = callbacks]_vars

\* the proxy view of a capture that caught a provider failure
Degraded == [activeConnections |-> 0, stats |-> Null]

\* C20: the proxy-view capture resolves to {activeConnections: 0, stats: null}
\* whenever one of its two provider calls fails; a callback that has a
\* snapshot after an earlier one of its timer had one publishes whatever the
\* capture gave, and with that degraded view it publishes activeConnections 0
\* and direct equal to the snapshot.
C20_ProxyFailureDegrades ==
  /\ \A conns \in ConnOutputs, stats \in IfaceOutputs :
       (~conns.ok \/ ~stats.ok)
         => checkProxyConnections(ProxyPort, conns, stats) = Degraded
  /\ (lastTick # Null /\ lastTick.cur # Null /\ lastStats # Null /\ ~lastTick.first)
       => lastTick.published
  /\ (lastTick # Null /\ lastTick.published /\ lastTick.proxy = Degraded)
       => /\ totalStats.proxied.activeConnections = 0
          /\ \A f \in MetricFields : totalStats.direct[f] = lastTick.cur[f]

\* C20 witness: a callback published to a subscriber with the degraded proxy
\* view, and direct carries the snapshot of eth0
C20_Witness ==
  /\ lastTick # Null
  /\ lastTick.published
  /\ lastTick.proxy = Degraded
  /\ lastTick.to # <<>>
  /\ totalStats.proxied.activeConnections = 0
  /\ totalStats.direct.upload = 2000
  /\ totalStats.direct.download = 1000

Usable(list) ==
  {k \in 1..Len(list) : list[k].operstate = "up" /\ list[k].rx_bytes >= 1}

\* a counter or rate, 0 when the provider left it out
Read(x) == IF x = Missing THEN 0 ELSE x

\* C22: for every interface list the capture resolves to the snapshot of the
\* first interface that is up with a received-byte counter above 0, missing
\* fields read as 0, and to null when the list has no such interface.
C22_FirstUsableInterface ==
  ("snapshot" \in DOMAIN returned /\ returned.out.ok) =>
    LET list == returned.out.list
    IN IF Usable(list) = {}
       THEN returned.snapshot = Null
       ELSE LET first == CHOOSE k \in Usable(list) : \A j \in Usable(list) : k <= j
            IN /\ returned.snapshot # Null
               /\ returned.snapshot.upload = Read(list[first].tx_bytes)
               /\ returned.snapshot.download = Read(list[first].rx_bytes)
               /\ returned.snapshot.uploadSpeed = Read(list[first].tx_sec)
               /\ returned.snapshot.downloadSpeed = Read(list[first].rx_sec)

\* C22 witness: of the two usable interfaces the first in list order, w0
\* behind the loopback and ahead of e0, gave the snapshot, its missing upload
\* rate read as 0
C22_Witness ==
  /\ "snapshot" \in DOMAIN returned
  /\ returned.out = Resolved(<<IfLo, IfW, IfE>>)
  /\ returned.snapshot # Null
  /\ returned.snapshot.download = 300
  /\ returned.snapshot.uploadSpeed = 0

\* C23: the step of stop() on a running monitor changes the timer and
\* intervalId and nothing else of the instance; the start() that follows
\* leaves the callbacks alone too, and every fan-out, of whichever timer,
\* invokes the callbacks registered then.
C23_StopKeepsSubscribersAndStats ==
  /\ [][(intervalId # 0 /\ intervalId' = 0)
          => UNCHANGED <<config, callbacks, totalStats, totalRef, lastStats,
                         disposers, inflight, nextTimer>>]_vars
  /\ [][(intervalId = 0 /\ intervalId' # 0)
          => UNCHANGED <<callbacks, totalStats, lastStats>>]_vars
  /\ [][PublishStep => lastTick'.to = callbacks]_vars

\* C23 witness: after stop() and a second start(), a callback of the second
\* timer has invoked cb1, the only callback ever subscribed and never
\* disposed of
C23_Witness ==
  /\ starts = 2
  /\ intervalId = 2
  /\ disposers = <<[callback |-> "cb1", called |-> FALSE]>>
  /\ lastTick # Null
  /\ lastTick.timer = 2
  /\ lastTick.published
  /\ lastTick.to = <<"cb1">>
====
